---- MODULE Spec2Model ----
(***************************************************************************)
(* Model of the lease service of pinecrypt (src/lease.py): the submit,     *)
(* get_by_serial and flush handlers running concurrently on several        *)
(* replicas against one shared certidude_certificates collection.          *)
(*                                                                         *)
(* Every "await" of a handler is a scheduling point: a handler builds its  *)
(* store call, the store applies it atomically at some later moment, and   *)
(* the handler resumes later still to count and answer.                    *)
(***************************************************************************)
EXTENDS Integers, Sequences, FiniteSets, TLC

\* ------------------------------------------------------------------ bounds
\* Number of requests the gateway accepts in one run.
MaxRequests == 2

\* ------------------------------------------------------- program constants
\* NumberRange(min=0, max=65534) of LeaseUpdateForm.remote_port.
MinPort == 0
MaxPort == 65534

\* ------------------------------------------------------------ environment
\* Request handlers (coroutines); each runs in the process of one replica.
Handlers == {"h1", "h2"}

\* socket.getfqdn() of the replica a handler runs on.
FQDN(h) == IF h = "h1" THEN "gw" ELSE "gw-a"

FQDNs == {FQDN(h) : h \in Handlers}

\* Service names clients and operators send ("" is an empty or absent field).
Services == {"", "b", "a-b"}

\* Serial numbers requested through /api/by-serial/<serial_number:int>.
SerialInputs == {10, 26}

\* Path strings requested through /api/by-dn/<distinguished_name:string>,
\* as sequences of their pieces.
DNInputs == { <<"CN=alice", "%20", "laptop">>,
              <<"CN=carol">> }

\* ------------------------------------------------------------ conversions
HexDigits == <<"0", "1", "2", "3", "4", "5", "6", "7",
               "8", "9", "a", "b", "c", "d", "e", "f">>

\* Mutant: "%X" for "%x".
UpperDigits == <<"0", "1", "2", "3", "4", "5", "6", "7",
                 "8", "9", "A", "B", "C", "D", "E", "F">>

RECURSIVE HexUpper(_)
HexUpper(n) == IF n < 16 THEN << UpperDigits[n + 1] >>
               ELSE HexUpper(n \div 16) \o << UpperDigits[(n % 16) + 1] >>

\* "%x" % serial_number, as the sequence of its digits.
RECURSIVE Hex(_)
Hex(n) == IF n < 16 THEN << HexDigits[n + 1] >>
          ELSE Hex(n \div 16) \o << HexDigits[(n % 16) + 1] >>

\* distinguished_name.replace("%20", " ")
ReplaceSpace(dn) == [i \in DOMAIN dn |-> IF dn[i] = "%20" THEN " " ELSE dn[i]]

\* "%s-%s" % (FQDN, service)
Instance(fqdn, service) == fqdn \o "-" \o service

\* ------------------------------------------------------------- validation
\* Strings the IPAddress(ipv4=True, ipv6=True) validator accepts.
IPLiterals == {"10.8.0.2", "fd00::2", "198.51.100.7", "203.0.113.9"}

\* The form bodies clients send.  absent names the fields the body lacks;
\* an absent StringField has data "", an absent IntegerField has no data.
MkForm(service, internal, remote, port, absent) ==
    [service |-> service, internal_addr |-> internal, remote_addr |-> remote,
     remote_port |-> port, absent |-> absent]

Forms ==
    { MkForm("b", "10.8.0.2", "198.51.100.7", 443, {}),
      MkForm("b", "fd00::2", "203.0.113.9", 65534, {}),
      MkForm("a-b", "10.8.0.2", "203.0.113.9", 65534, {}),
      MkForm("", "fd00::2", "198.51.100.7", 443, {"service"}),
      MkForm("b", "999.1.1.1", "198.51.100.7", 443, {}),
      MkForm("b", "10.8.0.2", "999.1.1.1", 443, {}),
      MkForm("b", "10.8.0.2", "198.51.100.7", 65535, {}),
      MkForm("b", "10.8.0.2", "198.51.100.7", 70000, {}),
      MkForm("b", "", "198.51.100.7", 443, {"internal_addr"}),
      MkForm("b", "10.8.0.2", "198.51.100.7", 0, {"remote_port"}) }

\* DataRequired(): the field has data and it is not empty.
DataRequired(form, field) == field \notin form.absent /\ form[field] # ""

\* IPAddress(ipv4=True, ipv6=True)
IPAddress(form, field) == form[field] \in IPLiterals

\* Mutant: the upper end of the range off by one.
NumberRangeOffByOne(form, field) ==
    /\ field \notin form.absent
    /\ form[field] >= MinPort
    /\ form[field] <= MaxPort + 1

\* NumberRange(min=0, max=65534): no data fails like a number out of range.
NumberRange(form, field) ==
    /\ field \notin form.absent
    /\ form[field] >= MinPort
    /\ form[field] <= MaxPort

\* LeaseUpdateForm.validate(): service carries no validator.
Validate(form) ==
    /\ DataRequired(form, "internal_addr") /\ IPAddress(form, "internal_addr")
    /\ DataRequired(form, "remote_addr") /\ IPAddress(form, "remote_addr")
    /\ NumberRange(form, "remote_port")

\* ---------------------------------------------------------------- records
DocIds == {1, 2, 3}

\* Fields a lease writes; a document may lack any of them.
LeaseFields == {"ip", "instance", "remote", "last_seen"}

NoRemote == [addr |-> "", port |-> 0]

\* A certificate as the signing workflow stores it: no lease fields.
\* A field that is not in present holds the filler written here.
\* by is history: the (FQDN, service) whose submit wrote instance.
MkDoc(id, serial, dn, status) ==
    [_id |-> id, serial_number |-> serial, distinguished_name |-> dn,
     status |-> status, present |-> {}, ip |-> <<>>, instance |-> "",
     remote |-> NoRemote, last_seen |-> 0, by |-> <<>>]

NoQuery == [key |-> "serial_number", value |-> <<>>, status |-> ""]
NoForm == MkForm("", "", "", 0, {})
NoUpdate == [last_seen |-> 0, instance |-> "", remote_port |-> 0,
             remote_addr |-> "", ip |-> "", by |-> <<>>]

Idle == [pc |-> "idle", op |-> "none", q |-> NoQuery, form |-> NoForm,
         update |-> NoUpdate, doc |-> <<>>, matched |-> 0,
         response |-> "none"]

VARIABLES
    docs,             \* certidude_certificates: _id -> document
    handler,          \* per handler: position and locals
    submit_count,     \* pinecrypt_gateway_lease_updates, per replica and service
    flush_count,      \* pinecrypt_gateway_lease_flushes, per replica and service
    migration_count,  \* pinecrypt_gateway_lease_migrations, per replica label
    not_found_count,  \* pinecrypt_gateway_lease_not_found, per replica and service
    requests          \* requests accepted so far

vars == <<docs, handler, submit_count, flush_count, migration_count,
          not_found_count, requests>>

counters == <<submit_count, flush_count, migration_count, not_found_count>>

\* datetime.utcnow(): time is counted in requests accepted, a clock that
\* ticks whenever the gateway accepts a request.
now == requests

\* Counter.labels(...).inc()
Inc(counter, label) == [counter EXCEPT ![label] = @ + 1]

\* ------------------------------------------------------------------ store
\* Mutant: the filter without the status condition.
MatchesAnyStatus(d, q) == d[q.key] = q.value

\* The filter of a query: the key field equals the value, status too.
Matches(d, q) == d[q.key] = q.value /\ d.status = q.status

Matching(ds, q) == {id \in DocIds : Matches(ds[id], q)}

\* Mutant: $push for $addToSet.
Push(arr, v) == Append(arr, v)

\* Mutant: the array replaced by the new address.
ReplaceArray(arr, v) == << v >>

\* $addToSet on an array field (created when the document lacks it).
AddToSet(arr, v) ==
    IF \E i \in DOMAIN arr : arr[i] = v THEN arr ELSE Append(arr, v)

\* Mutant: ip written with $set, replacing the array.
ApplyUpdateSetIp(d, u) ==
    [d EXCEPT !.present = @ \cup LeaseFields,
              !.last_seen = u.last_seen,
              !.instance = u.instance,
              !.by = u.by,
              !.remote = [addr |-> u.remote_addr, port |-> u.remote_port],
              !.ip = << u.ip >>]

\* Mutant: a torn update, remote.addr left as it was.
ApplyUpdateTorn(d, u) ==
    [d EXCEPT !.present = @ \cup LeaseFields,
              !.last_seen = u.last_seen,
              !.instance = u.instance,
              !.by = u.by,
              !.remote = [addr |-> @.addr, port |-> u.remote_port],
              !.ip = AddToSet(@, u.ip)]

\* The update document of submit applied to one document.
ApplyUpdate(d, u) ==
    [d EXCEPT !.present = @ \cup LeaseFields,
              !.last_seen = u.last_seen,
              !.instance = u.instance,
              !.by = u.by,
              !.remote = [addr |-> u.remote_addr, port |-> u.remote_port],
              !.ip = AddToSet(@, u.ip)]

\* Mutants: $unset of every lease field, and $unset of ip alone.
UnsetLease(d) ==
    [d EXCEPT !.present = {}, !.ip = <<>>, !.instance = "", !.by = <<>>,
              !.remote = NoRemote, !.last_seen = 0]

UnsetIpOnly(d) == [d EXCEPT !.present = @ \ {"ip"}, !.ip = <<>>]

\* $unset of ip and instance on one document.
Unset(d) ==
    [d EXCEPT !.present = @ \ {"ip", "instance"},
              !.ip = <<>>, !.instance = "", !.by = <<>>]

\* The filter {"instance": inst} of flush.
Owned(d, inst) == "instance" \in d.present /\ d.instance = inst

\* update_many of flush over the whole collection.
UpdateMany(ds, inst) ==
    [id \in DocIds |-> IF Owned(ds[id], inst) THEN Unset(ds[id]) ELSE ds[id]]

\* Mutants of the comparison: == for !=, and "is None" for the comparison.
IsMigrationInverted(d, inst) == "instance" \in d.present /\ d.instance = inst

IsMigrationFirstLease(d, inst) == "instance" \notin d.present

\* doc.get("instance") != instance
IsMigration(d, inst) == ~("instance" \in d.present /\ d.instance = inst)

\* The collection when the replicas start.  Certificates come from the
\* signing workflow: two signed ones of one distinguished name and a revoked
\* one.  Leases survive a restart of the replicas, so the collection is
\* either fresh or holds the leases an earlier run of submit wrote.
Fresh ==
    [id \in DocIds |->
        CASE id = 1 -> MkDoc(1, <<"a">>, <<"CN=alice", " ", "laptop">>, "signed")
          [] id = 2 -> MkDoc(2, <<"f", "f">>, <<"CN=alice", " ", "laptop">>, "signed")
          [] OTHER  -> MkDoc(3, <<"1", "a">>, <<"CN=bob">>, "revoked")]

Leased ==
    [Fresh EXCEPT
       ![1] = ApplyUpdate(@, [last_seen |-> 0, instance |-> Instance("gw", "b"),
                              remote_port |-> 443, remote_addr |-> "198.51.100.7",
                              ip |-> "10.8.0.2", by |-> <<"gw", "b">>]),
       ![2] = ApplyUpdate(@, [last_seen |-> 0, instance |-> Instance("gw-a", "b"),
                              remote_port |-> 443, remote_addr |-> "198.51.100.7",
                              ip |-> "10.8.0.2", by |-> <<"gw-a", "b">>])]

InitDocs == {Fresh, Leased}

Labels == FQDNs \X Services

\* A replica starts with its counters at zero and no request in progress.
Init ==
    /\ docs \in InitDocs
    /\ handler = [h \in Handlers |-> Idle]
    /\ submit_count = [l \in Labels |-> 0]
    /\ flush_count = [l \in Labels |-> 0]
    /\ migration_count = [f \in FQDNs |-> 0]
    /\ not_found_count = [l \in Labels |-> 0]
    /\ requests = 0

\* ---------------------------------------------------------------- handlers
\* A handler that has answered: its locals are gone.
Done(op, response) == [Idle EXCEPT !.pc = "done", !.op = op, !.response = response]

Free(h) == handler[h].pc \in {"idle", "done"} /\ requests < MaxRequests

\* submit (lines 51-59): q["status"] = "signed", validate the form, build
\* the update with the clock as it reads now, and issue the store call.
Submit(h, q, form) ==
    /\ Free(h)
    /\ requests' = requests + 1
    /\ handler' = [handler EXCEPT ![h] =
          IF ~Validate(form)
          THEN Done("submit", "InvalidUsage")
          ELSE [Idle EXCEPT !.pc = "await", !.op = "submit",
                            !.q = [q EXCEPT !.status = "signed"],
                            !.form = form,
                            !.update =
                               [last_seen |-> now',
                                instance |-> Instance(FQDN(h), form.service),
                                remote_port |-> form.remote_port,
                                remote_addr |-> form.remote_addr,
                                ip |-> form.internal_addr,
                                by |-> <<FQDN(h), form.service>>]]]
    /\ UNCHANGED <<docs, counters>>

\* POST /api/by-serial/<serial_number:int>
submit_by_serial(h) ==
    \E n \in SerialInputs, form \in Forms :
        Submit(h, [key |-> "serial_number", value |-> Hex(n), status |-> ""], form)

\* POST /api/by-dn/<distinguished_name:string>
submit_by_dn(h) ==
    \E dn \in DNInputs, form \in Forms :
        Submit(h, [key |-> "distinguished_name", value |-> ReplaceSpace(dn),
                   status |-> ""], form)

\* Mutant: every matching document is updated (update_many).
FindAndUpdateAll(h) ==
    /\ handler[h].pc = "await" /\ handler[h].op = "submit"
    /\ IF Matching(docs, handler[h].q) = {}
       THEN /\ handler' = [handler EXCEPT ![h].pc = "resumed", ![h].doc = <<>>]
            /\ UNCHANGED docs
       ELSE \E id \in Matching(docs, handler[h].q) :
            /\ docs' = [i \in DocIds |->
                          IF i \in Matching(docs, handler[h].q)
                          THEN ApplyUpdate(docs[i], handler[h].update)
                          ELSE docs[i]]
            /\ handler' = [handler EXCEPT ![h].pc = "resumed",
                                          ![h].doc = << docs[id] >>]
    /\ UNCHANGED <<counters, requests>>

\* find_one_and_update(q, update, return_document=BEFORE) applied by the
\* store: one matching document is updated and its pre-image returned;
\* with no match nothing is written and None is returned.
FindOneAndUpdate(h) ==
    /\ handler[h].pc = "await" /\ handler[h].op = "submit"
    /\ IF Matching(docs, handler[h].q) = {}
       THEN /\ handler' = [handler EXCEPT ![h].pc = "resumed", ![h].doc = <<>>]
            /\ UNCHANGED docs
       ELSE \E id \in Matching(docs, handler[h].q) :
            /\ docs' = [docs EXCEPT ![id] = ApplyUpdate(@, handler[h].update)]
            /\ handler' = [handler EXCEPT ![h].pc = "resumed",
                                          ![h].doc = << docs[id] >>]
    /\ UNCHANGED <<counters, requests>>

\* submit (lines 71-78) after the await.
SubmitDone(h) ==
    /\ handler[h].pc = "resumed" /\ handler[h].op = "submit"
    /\ LET service == handler[h].form.service
           label == <<FQDN(h), service>>
       IN IF handler[h].doc # <<>>
          THEN /\ submit_count' = Inc(submit_count, label)
               /\ migration_count' =
                     IF IsMigration(handler[h].doc[1], Instance(FQDN(h), service))
                     THEN Inc(migration_count, FQDN(h))
                     ELSE migration_count
               /\ handler' = [handler EXCEPT
                                ![h] = Done("submit", "Client lease info updated")]
               /\ UNCHANGED not_found_count
          ELSE /\ not_found_count' = Inc(not_found_count, label)
               /\ handler' = [handler EXCEPT ![h] = Done("submit", "NotFound")]
               /\ UNCHANGED <<submit_count, migration_count>>
    /\ UNCHANGED <<docs, flush_count, requests>>

\* GET /api/by-serial/<serial_number:int> (lines 82-85): issue find_one.
get_by_serial(h) ==
    \E n \in SerialInputs :
        /\ Free(h)
        /\ requests' = requests + 1
        /\ handler' = [handler EXCEPT ![h] =
              [Idle EXCEPT !.pc = "await", !.op = "get",
                           !.q = [key |-> "serial_number", value |-> Hex(n),
                                  status |-> "signed"]]]
        /\ UNCHANGED <<docs, counters>>

\* find_one(q) applied by the store.
FindOne(h) ==
    /\ handler[h].pc = "await" /\ handler[h].op = "get"
    /\ IF Matching(docs, handler[h].q) = {}
       THEN handler' = [handler EXCEPT ![h].pc = "resumed", ![h].doc = <<>>]
       ELSE \E id \in Matching(docs, handler[h].q) :
               handler' = [handler EXCEPT ![h].pc = "resumed",
                                          ![h].doc = << docs[id] >>]
    /\ UNCHANGED <<docs, counters, requests>>

\* get_by_serial (lines 87-90) after the await.
GetDone(h) ==
    /\ handler[h].pc = "resumed" /\ handler[h].op = "get"
    /\ handler' = [handler EXCEPT ![h] =
                      Done("get", IF handler[h].doc # <<>>
                                  THEN "Certificate valid" ELSE "NotFound")]
    /\ UNCHANGED <<docs, counters, requests>>

\* DELETE /api/by-service/<service:string> (lines 104-110): issue update_many.
flush(h) ==
    \E service \in Services \ {""} :
        /\ Free(h)
        /\ requests' = requests + 1
        /\ handler' = [handler EXCEPT ![h] =
              [Idle EXCEPT !.pc = "await", !.op = "flush",
                           !.form = [NoForm EXCEPT !.service = service],
                           !.update = [NoUpdate EXCEPT
                              !.instance = Instance(FQDN(h), service)]]]
        /\ UNCHANGED <<docs, counters>>

\* update_many(filter, $unset) applied by the store.
UpdateManyApplied(h) ==
    /\ handler[h].pc = "await" /\ handler[h].op = "flush"
    /\ docs' = UpdateMany(docs, handler[h].update.instance)
    /\ handler' = [handler EXCEPT
          ![h].pc = "resumed",
          ![h].matched = Cardinality({id \in DocIds :
                            Owned(docs[id], handler[h].update.instance)})]
    /\ UNCHANGED <<counters, requests>>

\* flush (lines 116-117) after the await.
FlushDone(h) ==
    /\ handler[h].pc = "resumed" /\ handler[h].op = "flush"
    /\ flush_count' = Inc(flush_count, <<FQDN(h), handler[h].form.service>>)
    /\ handler' = [handler EXCEPT ![h] = Done("flush", "Leases flushed")]
    /\ UNCHANGED <<docs, submit_count, migration_count, not_found_count, requests>>

\* What the collection may hold after a store call that raised: a call
\* that timed out was either not applied or applied.
AfterFailedCall(h) ==
    {docs} \cup
    (IF handler[h].op = "flush"
     THEN {UpdateMany(docs, handler[h].update.instance)}
     ELSE IF handler[h].op = "submit"
     THEN {[docs EXCEPT ![id] = ApplyUpdate(@, handler[h].update)] :
              id \in Matching(docs, handler[h].q)}
     ELSE {})

\* Mutant: the exception is swallowed and the call answers None.
StoreErrorAsNone(h) ==
    /\ handler[h].pc = "await"
    /\ handler' = [handler EXCEPT ![h].pc = "resumed", ![h].doc = <<>>]
    /\ docs' \in AfterFailedCall(h)
    /\ UNCHANGED <<counters, requests>>

\* The awaited store call raises (store down, timeout): no handler catches
\* it, so it leaves the handler, which counts nothing, and the gateway
\* answers with a server error.
StoreError(h) ==
    /\ handler[h].pc = "await"
    /\ handler' = [handler EXCEPT ![h] = Done(handler[h].op, "ServerError")]
    /\ docs' \in AfterFailedCall(h)
    /\ UNCHANGED <<counters, requests>>

Next ==
    \/ \E h \in Handlers : submit_by_serial(h)
    \/ \E h \in Handlers : submit_by_dn(h)
    \/ \E h \in Handlers : FindOneAndUpdate(h)
    \/ \E h \in Handlers : SubmitDone(h)
    \/ \E h \in Handlers : get_by_serial(h)
    \/ \E h \in Handlers : FindOne(h)
    \/ \E h \in Handlers : GetDone(h)
    \/ \E h \in Handlers : flush(h)
    \/ \E h \in Handlers : UpdateManyApplied(h)
    \/ \E h \in Handlers : FlushDone(h)
    \/ \E h \in Handlers : StoreError(h)

Spec == Init /\ [][Next]_vars

\* The replicas started on a collection of credentials none of which has
\* been leased yet.
InitFresh == Init /\ docs = Fresh

SpecFresh == InitFresh /\ [][Next]_vars

\* ================================================================= claims
\* Vocabulary of the claims.
Range(seq) == {seq[i] : i \in DOMAIN seq}

HasInstance(d) == "instance" \in d.present

\* The instance string of the submit handler h is running.
ThisInstance(h) == FQDN(h) \o "-" \o handler[h].form.service

\* The step in which the store applies the call handler h awaits.
Applied(h, op) ==
    /\ handler[h].op = op /\ handler[h].pc = "await"
    /\ handler'[h].pc = "resumed"

\* The step in which handler h, resumed with the store's answer, counts and
\* answers.
Answered(h, op) ==
    /\ handler[h].op = op /\ handler[h].pc = "resumed"
    /\ handler'[h].pc = "done"

\* Handler h holds the pre-image of a record its submit matched.
Matched(h) ==
    /\ handler[h].op = "submit" /\ handler[h].pc = "resumed"
    /\ handler[h].doc # <<>>

\* ---------------------------------------------------------------------- C1
\* C1: a submit that matched a signed record whose owningInstance before the
\* write was unset or equal to thisInstance is an ordinary refresh: the
\* submission counter is incremented and the migration counter is not.
C1_RefreshIsNotMigration ==
    [][\A h \in Handlers :
        (/\ Matched(h) /\ Answered(h, "submit")
         /\ \/ ~HasInstance(handler[h].doc[1])
            \/ handler[h].doc[1].instance = ThisInstance(h))
        => /\ submit_count' =
                Inc(submit_count, <<FQDN(h), handler[h].form.service>>)
           /\ migration_count' = migration_count]_vars

\* ---------------------------------------------------------------------- C2
\* C2 as claimed: when a submit finds the record owned by a different
\* instance A, the migration counter of this replica goes up by one and the
\* migration counter of A's replica stays as it was.
C2_PriorReplicaUntouched ==
    [][\A h \in Handlers :
        (/\ Matched(h) /\ Answered(h, "submit")
         /\ HasInstance(handler[h].doc[1])
         /\ handler[h].doc[1].instance # ThisInstance(h))
        => /\ migration_count'[FQDN(h)] = migration_count[FQDN(h)] + 1
           /\ migration_count'[handler[h].doc[1].by[1]] =
                 migration_count[handler[h].doc[1].by[1]]]_vars

\* C2 as amended: when a submit finds the record owned by a different
\* instance, the migration counter labelled with this replica goes up by
\* one and the migration counter of every other replica stays as it was.
C2_MigrationCountsTarget ==
    [][\A h \in Handlers :
        (/\ Matched(h) /\ Answered(h, "submit")
         /\ HasInstance(handler[h].doc[1])
         /\ handler[h].doc[1].instance # ThisInstance(h))
        => /\ migration_count'[FQDN(h)] = migration_count[FQDN(h)] + 1
           /\ \A f \in FQDNs \ {FQDN(h)} :
                 migration_count'[f] = migration_count[f]]_vars

\* A submit has been applied to a record another instance of the same
\* replica owned.
C2_Witness ==
    \E h \in Handlers :
        /\ Matched(h)
        /\ HasInstance(handler[h].doc[1])
        /\ handler[h].doc[1].instance # ThisInstance(h)
        /\ handler[h].doc[1].by[1] = FQDN(h)
        /\ docs[handler[h].doc[1]._id].instance = ThisInstance(h)

\* ---------------------------------------------------------------------- C3
\* Two submits in progress at once, from different instances, both applied
\* to the same record.
Concurrent(h, g) ==
    /\ h # g /\ Matched(h) /\ Matched(g)
    /\ handler[h].doc[1]._id = handler[g].doc[1]._id
    /\ ThisInstance(h) # ThisInstance(g)

\* The submit of h is one the code counts as a migration.
Migrated(h) == IsMigration(handler[h].doc[1], ThisInstance(h))

\* C3 as claimed, for records that had an owner before either write: of two
\* concurrent submits from different instances exactly one is classified
\* Migrated.
C3_ExactlyOneMigrated ==
    \A h, g \in Handlers :
        (/\ Concurrent(h, g)
         /\ HasInstance(handler[h].doc[1]) /\ HasInstance(handler[g].doc[1]))
        => (Migrated(h) # Migrated(g))

\* C3 as amended: of two concurrent submits from different instances, the
\* one whose write observed the other's instance as the pre-image adds one
\* to the migration counter of its replica, whatever the other one does.
C3_ObserverMigrates ==
    [][\A h, g \in Handlers :
        (/\ Concurrent(h, g) /\ Answered(h, "submit")
         /\ HasInstance(handler[h].doc[1])
         /\ handler[h].doc[1].instance = ThisInstance(g))
        => migration_count'[FQDN(h)] = migration_count[FQDN(h)] + 1]_vars

\* Two concurrent submits from different instances, one observing the
\* other's write, and both counted as migrations.
C3_Witness ==
    \E h, g \in Handlers :
        /\ Concurrent(h, g)
        /\ HasInstance(handler[h].doc[1]) /\ HasInstance(handler[g].doc[1])
        /\ handler[h].doc[1].instance = ThisInstance(g)
        /\ Migrated(h) /\ Migrated(g)

\* ---------------------------------------------------------------------- C4
\* No record of identity q.key = q.value has status signed.
NoSignedRecord(q) ==
    ~ \E id \in DocIds : docs[id][q.key] = q.value /\ docs[id].status = "signed"

\* C4: a valid submit whose identity matches no signed record changes no
\* record, counts one not-found and answers NotFound.
C4_NotFoundWritesNothing ==
    [][\A h \in Handlers :
        /\ (Applied(h, "submit") /\ NoSignedRecord(handler[h].q))
              => docs' = docs /\ handler'[h].doc = <<>>
        /\ (Answered(h, "submit") /\ handler[h].doc = <<>>)
              => /\ handler'[h].response = "NotFound"
                 /\ docs' = docs
                 /\ not_found_count' =
                       Inc(not_found_count, <<FQDN(h), handler[h].form.service>>)
                 /\ submit_count' = submit_count
                 /\ migration_count' = migration_count]_vars

\* A submit that matched no signed record was answered NotFound and the
\* collection is as it was at the start.
C4_Witness ==
    \E h \in Handlers :
        /\ handler[h].pc = "done" /\ handler[h].op = "submit"
        /\ handler[h].response = "NotFound"
        /\ \E l \in Labels : not_found_count[l] = 1
        /\ docs \in InitDocs
        /\ requests = 1

\* ---------------------------------------------------------------------- C5
\* The record the submit of h was applied to, as the claim wants it after
\* the write, with lastSeen = seen.
AfterSubmit(h, d, seen) ==
    /\ "last_seen" \in d.present /\ d.last_seen = seen
    /\ "remote" \in d.present
    /\ d.remote = [addr |-> handler[h].form.remote_addr,
                   port |-> handler[h].form.remote_port]
    /\ "instance" \in d.present /\ d.instance = ThisInstance(h)
    /\ "ip" \in d.present
    /\ Range(d.ip) = Range(docs[d._id].ip) \cup {handler[h].form.internal_addr}
    /\ Cardinality({i \in DOMAIN d.ip : d.ip[i] = handler[h].form.internal_addr}) = 1
    /\ Cardinality(Range(d.ip)) = Len(d.ip)

\* C5 as claimed: after a submit that matched, the record has lastSeen = the
\* time of the write, remote, owningInstance and internalAddresses as
\* submitted.
C5_LastSeenIsWriteTime ==
    [][\A h \in Handlers :
        (Applied(h, "submit") /\ handler'[h].doc # <<>>)
        => AfterSubmit(h, docs'[handler'[h].doc[1]._id], now)]_vars

\* C5 as amended: lastSeen is the time the handler read its clock when it
\* built the update, which is not later than the time of the write; the
\* rest as claimed.
C5_RecordAfterSubmit ==
    [][\A h \in Handlers :
        (Applied(h, "submit") /\ handler'[h].doc # <<>>)
        => /\ AfterSubmit(h, docs'[handler'[h].doc[1]._id],
                          handler[h].update.last_seen)
           /\ handler[h].update.last_seen <= now
           /\ handler'[h].doc[1] = docs[handler'[h].doc[1]._id]]_vars

\* A submit repeated an address the record already held, after another
\* request had been accepted: one copy, and lastSeen older than the write.
C5_Witness ==
    \E h \in Handlers :
        /\ Matched(h)
        /\ handler[h].form.internal_addr \in Range(handler[h].doc[1].ip)
        /\ docs[handler[h].doc[1]._id].ip = handler[h].doc[1].ip
        /\ docs[handler[h].doc[1]._id].instance = ThisInstance(h)
        /\ docs[handler[h].doc[1]._id].remote # handler[h].doc[1].remote
        /\ docs[handler[h].doc[1]._id].last_seen < now

\* ---------------------------------------------------------------------- C6
\* Record d of the collection as flush(service) of replica fqdn must leave it.
AfterFlush(d, fqdn, service) ==
    IF "instance" \in d.present /\ d.instance = fqdn \o "-" \o service
    THEN [d EXCEPT !.present = @ \ {"ip", "instance"},
                   !.ip = <<>>, !.instance = "", !.by = <<>>]
    ELSE d

\* C6: flush unsets internalAddresses and owningInstance on exactly the
\* records owned by thisInstance and changes nothing else.
C6_FlushFrame ==
    [][\A h \in Handlers :
        /\ Applied(h, "flush")
              => /\ DOMAIN docs' = DOMAIN docs
                 /\ \A id \in DocIds :
                       docs'[id] = AfterFlush(docs[id], FQDN(h),
                                              handler[h].form.service)
        /\ Answered(h, "flush") => docs' = docs]_vars

\* A flush cleared one record and left another one, owned by another
\* instance, as it was.
C6_Witness ==
    \E h \in Handlers :
        /\ handler[h].op = "flush" /\ handler[h].pc = "resumed"
        /\ handler[h].matched = 1
        /\ \E id \in DocIds :
              /\ docs[id].present = {"remote", "last_seen"}
              /\ docs[id].remote # NoRemote
        /\ \E id \in DocIds : HasInstance(docs[id])

\* ---------------------------------------------------------------------- C7
\* C7: right after flush has been applied, the same flush matches no record
\* and would leave the collection as it is.
C7_FlushIdempotent ==
    [][\A h \in Handlers :
        Applied(h, "flush")
        => /\ \A id \in DocIds :
                 ~(HasInstance(docs'[id])
                   /\ docs'[id].instance = handler[h].update.instance)
           /\ UpdateMany(docs', handler[h].update.instance) = docs']_vars

\* A second flush of a service, after the first one cleared a record and
\* was answered, has been applied and matched nothing.
C7_Witness ==
    \E h \in Handlers :
        /\ handler[h].op = "flush" /\ handler[h].pc = "resumed"
        /\ handler[h].matched = 0
        /\ flush_count[<<FQDN(h), handler[h].form.service>>] = 1
        /\ requests = 2
        /\ \E id \in DocIds : docs[id].present = {"remote", "last_seen"}

\* ---------------------------------------------------------------------- C8
\* A record flush has cleared: it was leased once and has no owner now.
Cleared(d) == "last_seen" \in d.present /\ ~HasInstance(d)

\* C8: the next submit for a record flush has cleared is a fresh claim: the
\* submission is counted and the migration counter is not incremented.
C8_FreshClaimAfterFlush ==
    [][\A h \in Handlers :
        (Matched(h) /\ Answered(h, "submit") /\ Cleared(handler[h].doc[1]))
        => /\ submit_count' =
                Inc(submit_count, <<FQDN(h), handler[h].form.service>>)
           /\ migration_count' = migration_count]_vars

\* ---------------------------------------------------------------------- C9
\* The input of a submit as the claim wants it: both addresses IP literals,
\* the port a number of [0, 65534], no required field missing.
WellFormed(form) ==
    /\ {"internal_addr", "remote_addr", "remote_port"} \cap form.absent = {}
    /\ form.internal_addr \in IPLiterals
    /\ form.remote_addr \in IPLiterals
    /\ form.remote_port \in 0 .. 65534

\* Handler h accepts a request in this step.
Accepted(h) == requests' = requests + 1 /\ handler'[h] # handler[h]

\* C9: a submit reaches the store only with well-formed input; a rejected
\* one is answered as a client error, changes no record and no counter, and
\* no store call is ever issued for it.
C9_RejectedBeforeStore ==
    [][\A h \in Handlers :
        /\ (Accepted(h) /\ handler'[h].op = "submit")
              => /\ docs' = docs /\ counters' = counters
                 /\ \/ /\ handler'[h].pc = "await"
                       /\ WellFormed(handler'[h].form)
                    \/ /\ handler'[h].pc = "done"
                       /\ handler'[h].response = "InvalidUsage"
        /\ (handler[h].op = "submit" /\ handler[h].response = "InvalidUsage")
              => (handler'[h] = handler[h] \/ Accepted(h))]_vars

\* The forms of the model the claim calls malformed are there to be sent.
MalformedForms == {form \in Forms : ~WellFormed(form)}

\* A malformed submit was rejected after a well-formed one had been counted:
\* the rejection left the collection and the counters as they were.
C9_Witness ==
    /\ Cardinality(MalformedForms) = 6
    /\ \E h, g \in Handlers :
          /\ handler[h].pc = "done" /\ handler[h].op = "submit"
          /\ handler[h].response = "InvalidUsage"
          /\ handler[g].pc = "done" /\ handler[g].op = "submit"
          /\ handler[g].response = "Client lease info updated"
          /\ \E l \in Labels : submit_count[l] = 1
          /\ \A l \in Labels : not_found_count[l] = 0

\* --------------------------------------------------------------------- C10
\* C10: a store call that fails ends the operation with a server error: not
\* NotFound, not a validation error, and no counter moves.
C10_StoreFailureIsServerError ==
    [][\A h \in Handlers :
        StoreError(h)
        => /\ handler'[h].pc = "done"
           /\ handler'[h].response = "ServerError"
           /\ handler'[h].response \notin {"NotFound", "InvalidUsage"}
           /\ not_found_count' = not_found_count
           /\ counters' = counters]_vars

\* The store calls of a submit and of a validity check have both failed:
\* both were answered with a server error and nothing was counted.
C10_Witness ==
    \E h, g \in Handlers :
        /\ handler[h].pc = "done" /\ handler[h].op = "submit"
        /\ handler[h].response = "ServerError"
        /\ handler[g].pc = "done" /\ handler[g].op = "get"
        /\ handler[g].response = "ServerError"
        /\ \A l \in Labels : not_found_count[l] = 0

\* --------------------------------------------------------------------- C11
\* The lowercase hexadecimal numerals of the serial numbers requested.
LowerHex == (10 :> <<"a">>) @@ (26 :> <<"1", "a">>)

\* A record of serial number serial has status signed.
SignedSerial(serial) ==
    \E id \in DocIds :
        docs[id].serial_number = serial /\ docs[id].status = "signed"

\* C11: the validity check asks for the lowercase-hex numeral of its serial
\* number, answers valid iff a signed record of that serial number exists
\* when the store reads, and changes no record and no counter.
C11_ValidIffSigned ==
    [][\A h \in Handlers :
        /\ (Accepted(h) /\ handler'[h].op = "get")
              => /\ \E n \in SerialInputs : handler'[h].q.value = LowerHex[n]
                 /\ handler'[h].q.key = "serial_number"
                 /\ docs' = docs /\ counters' = counters
        /\ Applied(h, "get")
              => /\ (handler'[h].doc # <<>>) = SignedSerial(handler[h].q.value)
                 /\ docs' = docs /\ counters' = counters
        /\ Answered(h, "get")
              => /\ handler'[h].response =
                       IF handler[h].doc # <<>>
                       THEN "Certificate valid" ELSE "NotFound"
                 /\ docs' = docs /\ counters' = counters]_vars

\* One validity check was answered valid and another one, for the revoked
\* certificate, not found; the collection holds leases and no counter moved.
C11_Witness ==
    \E h, g \in Handlers :
        /\ handler[h].pc = "done" /\ handler[h].op = "get"
        /\ handler[h].response = "Certificate valid"
        /\ handler[g].pc = "done" /\ handler[g].op = "get"
        /\ handler[g].response = "NotFound"
        /\ docs = Leased
        /\ \A l \in Labels : not_found_count[l] = 0 /\ submit_count[l] = 0

\* --------------------------------------------------------------------- C12
\* Both submits are in progress, both were applied to the same record, and
\* the write of g came right after the write of h: the pre-image g holds
\* carries the time stamp of h's request, which no other request has, and
\* still has its owner, which a flush in between would have removed.
Successive(h, g) ==
    /\ h # g /\ Matched(h) /\ Matched(g)
    /\ handler[h].doc[1]._id = handler[g].doc[1]._id
    /\ "last_seen" \in handler[g].doc[1].present
    /\ handler[g].doc[1].last_seen = handler[h].update.last_seen
    /\ HasInstance(handler[g].doc[1])

\* C12: after concurrent submits to one record with no flush in between,
\* internalAddresses is the initial set united with every submitted address,
\* and remote, lastSeen and owningInstance are those of the submit whose
\* write was applied last.
C12_UnionAndLastWriteWins ==
    \A h, g \in Handlers :
        Successive(h, g)
        => LET d == docs[handler[g].doc[1]._id]
           IN /\ Range(d.ip) = Range(handler[h].doc[1].ip)
                                  \cup {handler[h].form.internal_addr,
                                        handler[g].form.internal_addr}
              /\ Cardinality(Range(d.ip)) = Len(d.ip)
              /\ d.remote = [addr |-> handler[g].form.remote_addr,
                             port |-> handler[g].form.remote_port]
              /\ d.last_seen = handler[g].update.last_seen
              /\ d.instance = ThisInstance(g)
              /\ LeaseFields \subseteq d.present

\* Two concurrent submits of different addresses; the one applied last was
\* accepted first, so the record keeps the older time stamp.
C12_Witness ==
    \E h, g \in Handlers :
        /\ Successive(h, g)
        /\ handler[h].form.internal_addr # handler[g].form.internal_addr
        /\ handler[g].update.last_seen < handler[h].update.last_seen
        /\ Len(docs[handler[g].doc[1]._id].ip) = 2

\* --------------------------------------------------------------------- C13
\* Instance, remote address and remote port of d are those of one submit:
\* one replica and one well-formed form give all three.
FromOneSubmit(d) ==
    \E f \in FQDNs, form \in Forms :
        /\ WellFormed(form)
        /\ d.by = <<f, form.service>>
        /\ d.instance = f \o "-" \o form.service
        /\ d.remote = [addr |-> form.remote_addr, port |-> form.remote_port]

\* The submit handler h is running has issued its store call.
InFlight(h) ==
    handler[h].op = "submit" /\ handler[h].pc \in {"await", "resumed"}

\* C13: no record holds a torn update: where a record has an owner, its
\* owner, remote address and remote port come from one submit, they are
\* those of the submit whose time stamp the record carries, and the
\* pre-image that submit classifies with is the record as it was right
\* before that very write.
C13_NoTornUpdate ==
    \A id \in DocIds :
        HasInstance(docs[id])
        => /\ LeaseFields \subseteq docs[id].present
           /\ FromOneSubmit(docs[id])
           /\ \A h \in Handlers :
                 (InFlight(h) /\ docs[id].last_seen = handler[h].update.last_seen)
                 => /\ docs[id].instance = ThisInstance(h)
                    /\ docs[id].remote.addr = handler[h].form.remote_addr
                    /\ docs[id].remote.port = handler[h].form.remote_port
           /\ \A h \in Handlers :
                 (/\ Matched(h) /\ handler[h].doc[1]._id = id
                  /\ docs[id].last_seen = handler[h].update.last_seen)
                 => /\ handler[h].doc[1].last_seen # docs[id].last_seen
                    /\ Range(docs[id].ip) =
                          Range(handler[h].doc[1].ip)
                             \cup {handler[h].form.internal_addr}
                    /\ [docs[id] EXCEPT !.present = {}, !.ip = <<>>,
                                        !.instance = "", !.by = <<>>,
                                        !.remote = NoRemote, !.last_seen = 0]
                       = [handler[h].doc[1] EXCEPT
                                        !.present = {}, !.ip = <<>>,
                                        !.instance = "", !.by = <<>>,
                                        !.remote = NoRemote, !.last_seen = 0]

\* Two submits with different remotes were applied to one record at the
\* same time; the record carries the fields of the second one.
C13_Witness ==
    \E h, g \in Handlers :
        /\ Successive(h, g)
        /\ ThisInstance(h) # ThisInstance(g)
        /\ handler[h].form.remote_addr # handler[g].form.remote_addr
        /\ docs[handler[g].doc[1]._id].instance = ThisInstance(g)
        /\ docs[handler[g].doc[1]._id].last_seen = handler[g].update.last_seen
        /\ handler[g].doc[1].instance = ThisInstance(h)

\* --------------------------------------------------------------------- C14
\* C14: the records, their identities and their statuses are those of the
\* start, and a record that is not signed has no field changed.
C14_RecordsAndStatusFixed ==
    /\ DOMAIN docs = DocIds
    /\ \A id \in DocIds :
          /\ docs[id]._id = Fresh[id]._id
          /\ docs[id].serial_number = Fresh[id].serial_number
          /\ docs[id].distinguished_name = Fresh[id].distinguished_name
          /\ docs[id].status = Fresh[id].status
          /\ docs[id].status # "signed" => docs[id] = Fresh[id]

\* A submit for the serial number of the revoked certificate was applied
\* and matched nothing, while a signed record holds a new lease.
C14_Witness ==
    \E h \in Handlers :
        /\ handler[h].op = "submit" /\ handler[h].pc = "resumed"
        /\ handler[h].q.value = <<"1", "a">>
        /\ handler[h].doc = <<>>
        /\ \E id \in DocIds : docs[id].status = "revoked"
        /\ \E id \in DocIds : docs[id] \notin {Fresh[id], Leased[id]}

\* --------------------------------------------------------------------- C15
\* Handler h, awaiting the store call of op, moves in this step.
StoreStep(h, op) ==
    /\ handler[h].op = op /\ handler[h].pc = "await"
    /\ handler'[h] # handler[h]

\* C15: in every step the internalAddresses of a record stay as they are,
\* grow by the address of a submit, or are cleared whole by a flush.
C15_GrowOrClear ==
    [][\A id \in DocIds :
        LET old == Range(docs[id].ip)
            new == Range(docs'[id].ip)
        IN \/ new = old
           \/ /\ \E h \in Handlers :
                    /\ StoreStep(h, "submit")
                    /\ new = old \cup {handler[h].form.internal_addr}
              /\ "ip" \in docs'[id].present
           \/ /\ \E h \in Handlers : StoreStep(h, "flush")
              /\ new = {}
              /\ "ip" \notin docs'[id].present]_vars

\* One record has grown to two addresses and another one was cleared.
C15_Witness ==
    /\ \E id \in DocIds : Len(docs[id].ip) = 2
    /\ \E id \in DocIds : Cleared(docs[id]) /\ docs[id].ip = <<>>

\* --------------------------------------------------------------------- C16
\* flush(service) of the replica of h has been applied and its answer is
\* pending.
Flushed(h) == handler[h].op = "flush" /\ handler[h].pc = "resumed"

\* The submit of g found record d owned by the instance h flushes, written
\* by the replica of h, holding the one address that instance had added,
\* and added another address.  h is busy with its flush and the record can
\* be owned by that instance only until the flush is applied, so the flush
\* was applied after the submit of g.
MigratedAway(h, g, d) ==
    /\ Flushed(h) /\ Matched(g) /\ d = handler[g].doc[1]
    /\ HasInstance(d)
    /\ d.instance = handler[h].update.instance
    /\ d.by = <<FQDN(h), handler[h].form.service>>
    /\ Len(d.ip) = 1
    /\ handler[g].form.internal_addr # d.ip[1]
    /\ handler[g].update.instance # d.instance

\* C16: once flush(service) of replica R has been applied, no record holds
\* an address that instance R-service added before the flush, the records
\* that were migrated to another instance since included.
C16_FlushRemovesAddedAddresses ==
    \A h, g \in Handlers : \A id \in DocIds :
        (h # g /\ handler[g].doc # <<>> /\ MigratedAway(h, g, handler[g].doc[1])
              /\ handler[g].doc[1]._id = id)
        => handler[g].doc[1].ip[1] \notin Range(docs[id].ip)

\* --------------------------------------------------------------------- C17
\* Submissions counted by replica f, over its services.
Submissions(count, f) == count[<<f, "">>] + count[<<f, "b">>] + count[<<f, "a-b">>]

\* The pre-image handler h holds is owned by a different instance.
MigratedOutcome(h) ==
    /\ Matched(h)
    /\ HasInstance(handler[h].doc[1])
    /\ handler[h].doc[1].instance # ThisInstance(h)

\* C17: a submit that got the store's answer increments exactly one of the
\* submission counter (a record matched) and the not-found counter (none
\* did) of its service, by one; the migration counter moves only on a
\* Migrated outcome, so migrations never exceed submissions; no counter
\* ever decreases.
C17_CountersAgreeWithOutcomes ==
    [][/\ \A h \in Handlers :
             Answered(h, "submit") =>
                LET label == <<FQDN(h), handler[h].form.service>>
                IN /\ IF handler[h].doc # <<>>
                      THEN /\ submit_count' = Inc(submit_count, label)
                           /\ not_found_count' = not_found_count
                      ELSE /\ not_found_count' = Inc(not_found_count, label)
                           /\ submit_count' = submit_count
                   /\ migration_count' # migration_count
                         => /\ MigratedOutcome(h)
                            /\ migration_count' = Inc(migration_count, FQDN(h))
       /\ (\A h \in Handlers : ~Answered(h, "submit"))
             => UNCHANGED <<submit_count, not_found_count, migration_count>>
       /\ \A f \in FQDNs :
             migration_count'[f] <= Submissions(submit_count', f)
       /\ \A l \in Labels : /\ submit_count'[l] >= submit_count[l]
                            /\ not_found_count'[l] >= not_found_count[l]
                            /\ flush_count'[l] >= flush_count[l]
       /\ \A f \in FQDNs : migration_count'[f] >= migration_count[f]]_vars

\* --------------------------------------------------------------------- C18
\* Signed records the query of handler h matches.
QueryMatches(h) == Matching(docs, handler[h].q)

\* C18: the store call of a submit updates exactly one of the records its
\* query matches, also when several signed records match, and leaves every
\* other record as it was; with no match it writes nothing.
C18_AtMostOneRecord ==
    [][\A h \in Handlers :
        /\ StoreStep(h, "submit") =>
              \/ docs' = docs
              \/ \E id \in QueryMatches(h) :
                    /\ docs'[id] = ApplyUpdate(docs[id], handler[h].update)
                    /\ \A other \in DocIds \ {id} : docs'[other] = docs[other]
        /\ Applied(h, "submit") =>
              IF QueryMatches(h) = {}
              THEN docs' = docs /\ handler'[h].doc = <<>>
              ELSE \E id \in QueryMatches(h) :
                    /\ handler'[h].doc = << docs[id] >>
                    /\ docs'[id] = ApplyUpdate(docs[id], handler[h].update)
                    /\ \A other \in DocIds \ {id} : docs'[other] = docs[other]]_vars

\* A submit by distinguished name matched two signed records; the one whose
\* pre-image it holds is updated and the other one is as it started.
C18_Witness ==
    \E h \in Handlers :
        /\ Matched(h)
        /\ handler[h].q.key = "distinguished_name"
        /\ Cardinality(QueryMatches(h)) = 2
        /\ LET id == handler[h].doc[1]._id
           IN /\ docs[id] = ApplyUpdate(handler[h].doc[1], handler[h].update)
              /\ docs[id] # handler[h].doc[1]
              /\ \A other \in DocIds \ {id} :
                    docs[other] \in {Fresh[other], Leased[other]}
\* --------------------------------------------------------------------- C19
\* C19: on a collection that started with no record leased, a record has a
\* non-empty internalAddresses exactly when its owningInstance is set.
C19_AddressesIffInstance ==
    \A id \in DocIds :
        /\ ("ip" \in docs[id].present) = HasInstance(docs[id])
        /\ (docs[id].ip # <<>>) = HasInstance(docs[id])

\* A record that started unleased was leased by a submit and then cleared
\* by the flush of the instance that owned it.
C19_Witness ==
    /\ \E h \in Handlers : Flushed(h) /\ handler[h].matched = 1
    /\ \E id \in DocIds : Cleared(docs[id]) /\ docs[id].ip = <<>>
    /\ \E h \in Handlers : handler[h].op = "submit" /\ handler[h].pc = "done"

\* --------------------------------------------------------------------- C20
\* C20: the instance string tells the (replica, service) pairs apart, so
\* a flush clears no record whose last submit came from another pair, and a
\* submit that finds a record last submitted by another pair is not counted
\* as a refresh.
C20_OwnershipIsolatedPerPair ==
    [][\A h \in Handlers :
             /\ StoreStep(h, "flush") =>
                   \A id \in DocIds :
                      (/\ HasInstance(docs[id])
                       /\ docs[id].by # <<FQDN(h), handler[h].form.service>>)
                      => docs'[id] = docs[id]
             /\ (/\ Answered(h, "submit") /\ Matched(h)
                 /\ HasInstance(handler[h].doc[1])
                 /\ handler[h].doc[1].by # <<FQDN(h), handler[h].form.service>>)
                => migration_count' = Inc(migration_count, FQDN(h))]_vars
====
